---- MODULE Spec2Model ----
(***************************************************************************)
(* Model of the same-domain crawler of src/src/main.rs: Crawler::new,     *)
(* Crawler::crawl and the helpers crawl calls (parse_html, normalize_url,  *)
(* is_same_domain).  The web the crawler talks to is an input: a function  *)
(* from the resources of the site to the response the server gives.        *)
(***************************************************************************)
EXTENDS Naturals, Sequences, FiniteSets, TLC

(***************************************************************************)
(* Bounds.                                                                 *)
(***************************************************************************)
\* Total number of link fragments in all documents of one web.
MaxLinks == 3

(***************************************************************************)
(* Strings.  A piece of URL text is a record of its three textual parts,   *)
(* scheme "://" host path; a relative reference has no scheme and no host. *)
(* A content-type string is the sequence of its pieces.                    *)
(***************************************************************************)
Str(s, h, p) == [scheme |-> s, host |-> h, path |-> p]

None == <<>>
Some(x) == <<x>>
IsSome(o) == o # <<>>
Unwrap(o) == o[1]

RECURSIVE SeqToSet(_)
SeqToSet(s) == IF s = <<>> THEN {} ELSE {Head(s)} \cup SeqToSet(Tail(s))

\* Hosts the url crate rejects (a forbidden code point in the host).
BadHosts == {"exa mple.com"}
\* Hosts that are addresses, not domain names: Url::domain() is None.
IpHosts == {"127.0.0.1"}

\* ASCII lower-casing of a host, as the url crate's host parser does.
LowerHost(h) == IF h = "EXAMPLE.com" THEN "example.com" ELSE h

\* Url::parse(text): Err (None) for a relative reference and for a bad
\* host; otherwise the parsed URL, host lower-cased and an empty path of a
\* special scheme replaced by "/".
UrlParse(text) ==
    IF text.scheme = "" \/ text.host \in BadHosts
    THEN None
    ELSE Some(Str(text.scheme, LowerHost(text.host),
                  IF text.path = "" THEN "/" ELSE text.path))

\* Url::join(base, href) after Url::parse(href) failed: a reference with no
\* scheme is an absolute-path reference and takes the base's scheme and
\* host; a reference with a scheme fails again as it did alone.
UrlJoin(base, href) ==
    IF href.scheme # "" THEN None
    ELSE Some(Str(base.scheme, base.host,
                  IF href.path = "" THEN base.path ELSE href.path))

\* Url::to_string: the serialization is the text with the same parts.
UrlToString(u) == u

\* Url::domain()
UrlDomain(u) == IF u.host \in IpHosts \/ u.host = "" THEN None ELSE Some(u.host)

\* Crawler::normalize_url
normalize_url(base_url, href) ==
    LET direct == UrlParse(href)
        base   == UrlParse(base_url)
        joined == IF IsSome(direct) THEN direct
                  ELSE IF IsSome(base) THEN UrlJoin(Unwrap(base), href)
                  ELSE None
    IN  IF IsSome(joined) THEN Some(UrlToString(Unwrap(joined))) ELSE None

\* Mutant of is_same_domain: any URL that parses is in scope.
is_same_domain_any(domain, text) == IsSome(UrlParse(text))

\* Crawler::is_same_domain, with the crawler's base_domain as a parameter
is_same_domain(domain, text) ==
    LET parsed == UrlParse(text)
    IN  IF IsSome(parsed)
        THEN UrlDomain(Unwrap(parsed)) = Some(domain)
        ELSE FALSE

(***************************************************************************)
(* HTML.  A document is the sequence of its link-bearing fragments, each   *)
(* the attribute value and the context it stands in:                       *)
(*   "tag"   <a href="v">  a quoted attribute of a selected element,       *)
(*           seen by the document parser and by the pattern;               *)
(*   "bare"  <a href=v>    an unquoted attribute, seen by the parser only; *)
(*   "text"  href='v' in a comment or in script text, seen by the pattern  *)
(*           only.                                                         *)
(***************************************************************************)
Frag(c, v) == [ctx |-> c, val |-> v]

\* The values normalize_url accepts among hrefs, in order, the others dropped.
RECURSIVE NormalizeAll(_, _)
NormalizeAll(base_url, hrefs) ==
    IF hrefs = <<>> THEN <<>>
    ELSE LET n == normalize_url(base_url, Head(hrefs))
         IN  (IF IsSome(n) THEN <<Unwrap(n)>> ELSE <<>>)
             \o NormalizeAll(base_url, Tail(hrefs))

\* The attribute values of the fragments of html whose context is in ctxs.
RECURSIVE HrefsIn(_, _)
HrefsIn(html, ctxs) ==
    IF html = <<>> THEN <<>>
    ELSE (IF Head(html).ctx \in ctxs THEN <<Head(html).val>> ELSE <<>>)
         \o HrefsIn(Tail(html), ctxs)

\* Crawler::parse_html_with_scraper
parse_html_with_scraper(base_url, html) ==
    NormalizeAll(base_url, HrefsIn(html, {"tag", "bare"}))

\* Crawler::parse_html_with_regex
parse_html_with_regex(base_url, html) ==
    NormalizeAll(base_url, HrefsIn(html, {"tag", "text"}))

\* Mutant of parse_html: the pattern is only tried when the parser finds
\* nothing.
parse_html_fallback(base_url, html) ==
    IF parse_html_with_scraper(base_url, html) # <<>>
    THEN parse_html_with_scraper(base_url, html)
    ELSE parse_html_with_regex(base_url, html)

\* Crawler::parse_html
parse_html(base_url, html) ==
    parse_html_with_scraper(base_url, html) \o parse_html_with_regex(base_url, html)

(***************************************************************************)
(* Content types.                                                          *)
(***************************************************************************)
\* Mutant of StartsWith: the whole string is compared.
StartsWithAll(s, prefix) == s = prefix

\* str::starts_with
StartsWith(s, prefix) ==
    /\ Len(s) >= Len(prefix)
    /\ \A i \in 1..Len(prefix) : s[i] = prefix[i]

TextHtml == <<"text/", "html">>

\* A header value: visible ASCII text, or bytes HeaderValue::to_str rejects.
Header(t) == [ascii |-> TRUE, text |-> t]
OpaqueHeader == [ascii |-> FALSE, text |-> <<"text/", "html", "; name=caf\\xe9">>]

\* headers().get("content-type").and_then(|v| v.to_str().ok()).unwrap_or("")
ContentTypeOf(header) ==
    IF IsSome(header) /\ Unwrap(header).ascii THEN Unwrap(header).text ELSE <<>>

(***************************************************************************)
(* The web: what the server answers for each resource of the site.         *)
(*   connect  FALSE when the GET itself fails (send() returns Err)         *)
(*   header   the content-type header of the response, if any              *)
(*   body_ok  FALSE when reading the body fails after the headers came     *)
(*   body     the document served                                          *)
(* A resource that refuses the connection still has a page behind it,      *)
(* which nobody sees.                                                      *)
(***************************************************************************)
Root  == Str("https", "example.com", "/")
PageA == Str("https", "example.com", "/a")
PageB == Str("https", "example.com", "/b")
ResourceList == <<Root, PageA, PageB>>
Resources == SeqToSet(ResourceList)

\* Seeds: without and with the trailing slash, a relative reference (no
\* scheme) and an address (no domain).
SeedBare == Str("https", "example.com", "")
Seeds == {SeedBare, Root, Str("", "", "example.com"), Str("https", "127.0.0.1", "/")}

\* content-type headers: text/html, text/html; charset=utf-8, image/png,
\* Text/HTML, bytes that are not visible ASCII, and no header at all
HtmlHeader == Some(Header(TextHtml \o <<"; charset=utf-8">>))
PngHeader  == Some(Header(<<"image/", "png">>))
Headers ==
    { HtmlHeader,
      Some(Header(TextHtml)),
      PngHeader,
      Some(Header(<<"Text/", "HTML">>)),
      Some(OpaqueHeader),
      None }

\* The fragments documents are made of: links into the site (relative,
\* absolute, with an upper-case host, back to the seed), out of it (a
\* subdomain, another host) and one that is no URL.
LinkFrags ==
    { Frag("tag",  Str("", "", "/a")),
      Frag("bare", Str("https", "EXAMPLE.com", "/b")),
      Frag("text", SeedBare),
      Frag("bare", Str("https", "sub.example.com", "/a")),
      Frag("tag",  Str("https", "other.com", "")),
      Frag("text", Str("https", "exa mple.com", "/")) }

Docs(frags, n) == UNION {[1..k -> frags] : k \in 0..n}

IsHtmlHeader(h) == StartsWith(ContentTypeOf(h), TextHtml)

\* The responses with at most n fragments.  Only a page that is served as
\* HTML and whose body can be read has fragments that matter, so the others
\* are taken with the empty document; the pages with fragments, the pages
\* behind a refused connection and the bodies that cannot be read are taken
\* with one header of their kind.
Responses(headers, frags, n) ==
    { r \in [connect : BOOLEAN, header : headers, body_ok : BOOLEAN,
             body : Docs(frags, n)] :
        /\ r.body # <<>> => r.body_ok /\ r.header = HtmlHeader
        /\ ~r.connect => r.body_ok /\ r.header = HtmlHeader
        /\ ~r.body_ok => r.header \in {HtmlHeader, PngHeader} }

\* The number of fragments in the documents of w.
RECURSIVE TotalFrags(_, _)
TotalFrags(w, rs) ==
    IF rs = {} THEN 0
    ELSE LET r == CHOOSE x \in rs : TRUE
         IN  Len(w[r].body) + TotalFrags(w, rs \ {r})

\* A host that does not answer.
NoRoute == [connect |-> FALSE, header |-> None, body_ok |-> TRUE, body |-> <<>>]

\* The answer to GET text: reqwest parses the text and asks the server.
Respond(w, text) ==
    LET u == UrlParse(text)
    IN  IF IsSome(u) /\ Unwrap(u) \in DOMAIN w THEN w[Unwrap(u)] ELSE NoRoute

\* The webs that agree with w and also answer GET text: w itself when the
\* resource has answered before or is not of the site, else w with one more
\* answer, within the bound on fragments.
Answering(w, text) ==
    LET u == UrlParse(text)
    IN  IF ~IsSome(u) \/ Unwrap(u) \notin Resources \/ Unwrap(u) \in DOMAIN w
        THEN {w}
        ELSE { [res \in DOMAIN w \cup {Unwrap(u)} |->
                   IF res = Unwrap(u) THEN r ELSE w[res]] :
               r \in Responses(Headers, LinkFrags, MaxLinks - TotalFrags(w, DOMAIN w)) }

(***************************************************************************)
(* State.                                                                  *)
(***************************************************************************)
VARIABLES
    pc,            \* where main is: "new", "loop", "send", "text", "bytes",
                   \* "sleep", "returned", "panicked"
    start_url,     \* main's start_url
    web,           \* the answers the site has given so far, by resource
    to_visit,      \* Crawler.to_visit
    visited,       \* Crawler.visited
    base_domain,   \* Crawler.base_domain
    results,       \* crawl's results
    url,           \* crawl's url, the one being processed
    content_type,  \* crawl's content_type
    returned,      \* what crawl returned
    fetched,       \* history: the URLs a GET was issued for, in order
    enqueued       \* history: the URLs pushed onto to_visit, in order

vars == <<pc, start_url, web, to_visit, visited, base_domain, results, url,
          content_type, returned, fetched, enqueued>>

NoUrl == Str("", "", "")

\* Mutant of Html: the result keeps one copy of each link.
RECURSIVE FirstOccurrences(_)
FirstOccurrences(s) ==
    IF s = <<>> THEN <<>>
    ELSE LET front == FirstOccurrences(SubSeq(s, 1, Len(s) - 1))
         IN  IF s[Len(s)] \in SeqToSet(front) THEN front
             ELSE Append(front, s[Len(s)])
HtmlDistinct(u, l) == [tag |-> "Html", url |-> u, links |-> FirstOccurrences(l)]

\* CrawlResult
Html(u, l)     == [tag |-> "Html", url |-> u, links |-> l]
File(u, ct, c) == [tag |-> "File", url |-> u, content_type |-> ct, content |-> c]
Error(u, e)    == [tag |-> "Error", url |-> u, error |-> e]

Ok(v)  == [tag |-> "Ok", results |-> v]
Err(e) == [tag |-> "Err", error |-> e]
NotReturned == [tag |-> "None"]

Init ==
    /\ pc = "new"
    /\ start_url \in Seeds
    /\ web = [res \in {} |-> NoRoute]
    /\ to_visit = <<>>
    /\ visited = {}
    /\ base_domain = ""
    /\ results = <<>>
    /\ url = NoUrl
    /\ content_type = <<>>
    /\ returned = NotReturned
    /\ fetched = <<>>
    /\ enqueued = <<>>

(***************************************************************************)
(* Crawler::new (main, line 11).                                           *)
(***************************************************************************)
\* Mutant of New: the seed is queued in its normalized form.
NewNormalized ==
    /\ pc = "new"
    /\ LET parsed == UrlParse(start_url)
           domain == IF IsSome(parsed) THEN UrlDomain(Unwrap(parsed)) ELSE None
       IN  IF IsSome(domain)
           THEN /\ base_domain' = Unwrap(domain)
                /\ to_visit' = <<UrlToString(Unwrap(parsed))>>
                /\ enqueued' = <<UrlToString(Unwrap(parsed))>>
                /\ visited' = {}
                /\ pc' = "loop"
           ELSE /\ pc' = "panicked"
                /\ UNCHANGED <<base_domain, to_visit, enqueued, visited>>
    /\ UNCHANGED <<start_url, web, results, url, content_type, returned, fetched>>

\* Mutant of New: a seed that does not parse is crawled all the same.
NewLenient ==
    /\ pc = "new"
    /\ LET parsed == UrlParse(start_url)
           domain == IF IsSome(parsed) THEN UrlDomain(Unwrap(parsed)) ELSE None
       IN  base_domain' = IF IsSome(domain) THEN Unwrap(domain) ELSE ""
    /\ to_visit' = <<start_url>>
    /\ enqueued' = <<start_url>>
    /\ visited' = {}
    /\ pc' = "loop"
    /\ UNCHANGED <<start_url, web, results, url, content_type, returned, fetched>>

New ==
    /\ pc = "new"
    /\ LET parsed == UrlParse(start_url)
           domain == IF IsSome(parsed) THEN UrlDomain(Unwrap(parsed)) ELSE None
       IN  IF IsSome(domain)
           THEN /\ base_domain' = Unwrap(domain)
                /\ to_visit' = <<start_url>>
                /\ enqueued' = <<start_url>>
                /\ visited' = {}
                /\ pc' = "loop"
           ELSE \* expect("Invalid start URL") / expect("Unable to extract domain")
                /\ pc' = "panicked"
                /\ UNCHANGED <<base_domain, to_visit, enqueued, visited>>
    /\ UNCHANGED <<start_url, web, results, url, content_type, returned, fetched>>

(***************************************************************************)
(* Crawler::crawl.                                                         *)
(***************************************************************************)
\* Mutant of PopFront: the queue is used as a stack.
PopBack(q) == [item |-> q[Len(q)], rest |-> SubSeq(q, 1, Len(q) - 1)]

\* VecDeque::pop_front: the element taken and the queue left
PopFront(q) == [item |-> Head(q), rest |-> Tail(q)]

\* VecDeque::push_back
PushBack(q, x) == Append(q, x)

\* Mutant of IsVisited: the check at pop time is lost.
IsVisitedNever(seen, text) == FALSE

\* self.visited.contains(&url), line 52
IsVisited(seen, text) == text \in seen

\* Mutant of ShouldPush: the visited set is not consulted.
ShouldPushInScope(seen, domain, link) == is_same_domain(domain, link)

\* the condition of line 72
ShouldPush(seen, domain, link) ==
    link \notin seen /\ is_same_domain(domain, link)

\* the for loop of lines 71-75: the queue after it
RECURSIVE PushLinks(_, _, _, _)
PushLinks(q, seen, domain, links) ==
    IF links = <<>> THEN q
    ELSE PushLinks(IF ShouldPush(seen, domain, Head(links))
                   THEN PushBack(q, Head(links)) ELSE q,
                   seen, domain, Tail(links))

\* the links that loop pushes, in order
RECURSIVE Pushed(_, _, _)
Pushed(seen, domain, links) ==
    IF links = <<>> THEN <<>>
    ELSE (IF ShouldPush(seen, domain, Head(links)) THEN <<Head(links)>> ELSE <<>>)
         \o Pushed(seen, domain, Tail(links))

\* while let Some(url) = pop_front() fails: Ok(results), line 97
Finish ==
    /\ pc = "loop"
    /\ to_visit = <<>>
    /\ pc' = "returned"
    /\ returned' = Ok(results)
    /\ UNCHANGED <<start_url, web, to_visit, visited, base_domain, results, url,
                   content_type, fetched, enqueued>>

\* lines 51-54: the popped URL is already visited, continue
Skip ==
    /\ pc = "loop"
    /\ to_visit # <<>>
    /\ IsVisited(visited, PopFront(to_visit).item)
    /\ to_visit' = PopFront(to_visit).rest
    /\ url' = PopFront(to_visit).item
    /\ UNCHANGED <<pc, start_url, web, visited, base_domain, results,
                   content_type, returned, fetched, enqueued>>

\* Mutant of Visit: the URL is not marked visited before the fetch.
VisitUnmarked ==
    /\ pc = "loop"
    /\ to_visit # <<>>
    /\ ~IsVisited(visited, PopFront(to_visit).item)
    /\ to_visit' = PopFront(to_visit).rest
    /\ url' = PopFront(to_visit).item
    /\ fetched' = Append(fetched, url')
    /\ pc' = "send"
    /\ UNCHANGED <<start_url, web, visited, base_domain, results, content_type,
                   returned, enqueued>>

\* Mutant of Visit: the next URL is popped while a GET is awaited.
VisitEager ==
    /\ pc \in {"loop", "send"}
    /\ to_visit # <<>>
    /\ ~IsVisited(visited, PopFront(to_visit).item)
    /\ to_visit' = PopFront(to_visit).rest
    /\ url' = PopFront(to_visit).item
    /\ visited' = visited \cup {url'}
    /\ fetched' = Append(fetched, url')
    /\ pc' = "send"
    /\ UNCHANGED <<start_url, web, base_domain, results, content_type, returned,
                   enqueued>>

\* lines 51-59: pop, mark visited, issue the GET
Visit ==
    /\ pc = "loop"
    /\ to_visit # <<>>
    /\ ~IsVisited(visited, PopFront(to_visit).item)
    /\ to_visit' = PopFront(to_visit).rest
    /\ url' = PopFront(to_visit).item
    /\ visited' = visited \cup {url'}
    /\ fetched' = Append(fetched, url')
    /\ pc' = "send"
    /\ UNCHANGED <<start_url, web, base_domain, results, content_type, returned,
                   enqueued>>

\* Mutant of SendErr: the error of send() is returned from crawl.
SendErrAbort ==
    /\ pc = "send"
    /\ web' \in Answering(web, url)
    /\ ~Respond(web', url).connect
    /\ pc' = "returned"
    /\ returned' = Err("error sending request")
    /\ UNCHANGED <<start_url, to_visit, visited, base_domain, results, url,
                   content_type, fetched, enqueued>>

\* Mutant of SendErr: the URL that failed is queued again for a retry.
SendErrRetry ==
    /\ pc = "send"
    /\ web' \in Answering(web, url)
    /\ ~Respond(web', url).connect
    /\ results' = Append(results, Error(url, "error sending request"))
    /\ to_visit' = PushBack(to_visit, url)
    /\ enqueued' = Append(enqueued, url)
    /\ pc' = "sleep"
    /\ UNCHANGED <<start_url, visited, base_domain, url, content_type, returned,
                   fetched>>

\* lines 59, 86-91: send() returns Err
SendErr ==
    /\ pc = "send"
    /\ web' \in Answering(web, url)
    /\ ~Respond(web', url).connect
    /\ results' = Append(results, Error(url, "error sending request"))
    /\ pc' = "sleep"
    /\ UNCHANGED <<start_url, to_visit, visited, base_domain, url,
                   content_type, returned, fetched, enqueued>>

\* lines 59-68, 77: send() returns Ok(response); the body is read next
SendOk ==
    /\ pc = "send"
    /\ web' \in Answering(web, url)
    /\ Respond(web', url).connect
    /\ content_type' = ContentTypeOf(Respond(web', url).header)
    /\ pc' = IF StartsWith(content_type', TextHtml) THEN "text" ELSE "bytes"
    /\ UNCHANGED <<start_url, to_visit, visited, base_domain, results, url,
                   returned, fetched, enqueued>>

\* line 69: response.text() fails and ? returns the error from crawl
TextErr ==
    /\ pc = "text"
    /\ ~Respond(web, url).body_ok
    /\ pc' = "returned"
    /\ returned' = Err("error decoding response body")
    /\ UNCHANGED <<start_url, web, to_visit, visited, base_domain, results, url,
                   content_type, fetched, enqueued>>

\* Mutant of TextOk: a fragment that cannot be normalized is an error that
\* crawl returns.
TextOkStrict ==
    /\ pc = "text"
    /\ Respond(web, url).body_ok
    /\ LET links == parse_html(url, Respond(web, url).body)
           html  == Respond(web, url).body
       IN  IF \E k \in 1..Len(html) : ~IsSome(normalize_url(url, html[k].val))
           THEN /\ pc' = "returned"
                /\ returned' = Err("relative URL without a base")
                /\ UNCHANGED <<to_visit, enqueued, results>>
           ELSE /\ to_visit' = PushLinks(to_visit, visited, base_domain, links)
                /\ enqueued' = enqueued \o Pushed(visited, base_domain, links)
                /\ results' = Append(results, Html(url, links))
                /\ pc' = "sleep"
                /\ UNCHANGED returned
    /\ UNCHANGED <<start_url, web, visited, base_domain, url, content_type, fetched>>

\* lines 69-76: the body is read, its links are pushed, the result appended
TextOk ==
    /\ pc = "text"
    /\ Respond(web, url).body_ok
    /\ LET links == parse_html(url, Respond(web, url).body)
       IN  /\ to_visit' = PushLinks(to_visit, visited, base_domain, links)
           /\ enqueued' = enqueued \o Pushed(visited, base_domain, links)
           /\ results' = Append(results, Html(url, links))
    /\ pc' = "sleep"
    /\ UNCHANGED <<start_url, web, visited, base_domain, url, content_type,
                   returned, fetched>>

\* line 78: response.bytes() fails and ? returns the error from crawl
BytesErr ==
    /\ pc = "bytes"
    /\ ~Respond(web, url).body_ok
    /\ pc' = "returned"
    /\ returned' = Err("error decoding response body")
    /\ UNCHANGED <<start_url, web, to_visit, visited, base_domain, results, url,
                   content_type, fetched, enqueued>>

\* Mutant of BytesOk: the File result is put in front of the others.
BytesOkFront ==
    /\ pc = "bytes"
    /\ Respond(web, url).body_ok
    /\ results' = <<File(url, content_type, Respond(web, url).body)>> \o results
    /\ pc' = "sleep"
    /\ UNCHANGED <<start_url, web, to_visit, visited, base_domain, url,
                   content_type, returned, fetched, enqueued>>

\* lines 78-83: the bytes are read and the File result appended
BytesOk ==
    /\ pc = "bytes"
    /\ Respond(web, url).body_ok
    /\ results' = Append(results, File(url, content_type, Respond(web, url).body))
    /\ pc' = "sleep"
    /\ UNCHANGED <<start_url, web, to_visit, visited, base_domain, url,
                   content_type, returned, fetched, enqueued>>

\* line 94: the delay between iterations
Sleep ==
    /\ pc = "sleep"
    /\ pc' = "loop"
    /\ UNCHANGED <<start_url, web, to_visit, visited, base_domain, results, url,
                   content_type, returned, fetched, enqueued>>

Next ==
    \/ New
    \/ Finish
    \/ Skip
    \/ Visit
    \/ SendErr
    \/ SendOk
    \/ TextErr
    \/ TextOk
    \/ BytesErr
    \/ BytesOk
    \/ Sleep

Spec == Init /\ [][Next]_vars

(***************************************************************************)
(* Properties.                                                             *)
(***************************************************************************)
Running == pc \notin {"new", "panicked"}

NoDup(s) == \A i, j \in 1..Len(s) : i # j => s[i] # s[j]

ResultUrls == [i \in 1..Len(results) |-> results[i].url]

HasResult(u, tags) ==
    \E i \in 1..Len(results) : results[i].url = u /\ results[i].tag \in tags

AnyTag == {"Html", "File", "Error"}

\* The crawl ran to the end of the loop and returned its results.
ReturnedOk == pc = "returned" /\ returned.tag = "Ok"

\* C1: no URL string has a GET issued for it more than once, and no URL
\* string is the url of more than one entry of the results; every URL a GET
\* was issued for is in the visited set, so a visited URL is not fetched
\* again.
C1_Visitation ==
    /\ NoDup(fetched)
    /\ NoDup(ResultUrls)
    /\ SeqToSet(fetched) = visited

\* The crawl is over, some URL was pushed more than once, and several URLs
\* were fetched.
C1_Witness ==
    /\ ReturnedOk
    /\ ~NoDup(enqueued)
    /\ Len(fetched) >= 3

\* C2 as claimed: when crawl returns it returns Ok, and every URL whose
\* fetch failed at the transport level, in send() or while the body was
\* read, has an Error entry in the results returned.
C2_FailureCaptured ==
    pc = "returned" =>
        /\ returned.tag = "Ok"
        /\ \A u \in visited :
              (~Respond(web, u).connect \/ ~Respond(web, u).body_ok) =>
                  \E i \in 1..Len(returned.results) :
                      /\ returned.results[i].url = u
                      /\ returned.results[i].tag = "Error"

\* C3 as claimed: when crawl has returned, the queue is empty and the number
\* of results returned is the number of URLs popped and not skipped.
C3_Termination ==
    pc = "returned" =>
        /\ to_visit = <<>>
        /\ returned.tag = "Ok"
        /\ Len(returned.results) = Cardinality(visited)

\* C4 as claimed: when crawl has ended, every in-scope link of every Html
\* result is visited and has an entry of its own in the results.
C4_DiscoveryComplete ==
    pc = "returned" =>
        \A i \in 1..Len(results) :
            results[i].tag = "Html" =>
                \A k \in 1..Len(results[i].links) :
                    is_same_domain(base_domain, results[i].links[k]) =>
                        /\ results[i].links[k] \in visited
                        /\ HasResult(results[i].links[k], AnyTag)

\* The host of the seed, as Url::parse gives it.
SeedHost == Unwrap(UrlParse(start_url)).host

InSeedScope(text) ==
    \/ text = start_url
    \/ IsSome(UrlParse(text)) /\ Unwrap(UrlParse(text)).host = SeedHost

\* C5: every URL pushed after the seed parses and has exactly the seed's
\* host, and every URL in the queue, in the visited set, fetched or the url
\* of a result is the seed or has the seed's host.
C5_DomainScope ==
    Running =>
        /\ \A i \in 2..Len(enqueued) :
              /\ IsSome(UrlParse(enqueued[i]))
              /\ Unwrap(UrlParse(enqueued[i])).host = SeedHost
        /\ \A text \in SeqToSet(to_visit) \cup visited \cup SeqToSet(fetched)
                        \cup SeqToSet(ResultUrls) : InSeedScope(text)

OutOfScopeHosts == {"sub.example.com", "other.com"}

\* The crawl is over, an Html result lists a link to a subdomain and one to
\* another host, and other links were followed.
C5_Witness ==
    /\ ReturnedOk
    /\ Len(fetched) >= 2
    /\ \A h \in OutOfScopeHosts :
          \E i \in 1..Len(results) :
              /\ results[i].tag = "Html"
              /\ \E k \in 1..Len(results[i].links) : results[i].links[k].host = h

IsPrefix(a, b) == Len(a) <= Len(b) /\ SubSeq(b, 1, Len(a)) = a

\* The in-scope links the Html result of u lists: the links of u the crawl
\* has seen.
SeenLinks(u) ==
    UNION { { results[i].links[k] : k \in 1..Len(results[i].links) } :
            i \in { j \in 1..Len(results) :
                      results[j].url = u /\ results[j].tag = "Html" } }

InScopeLinks(u) == { l \in SeenLinks(u) : is_same_domain(base_domain, l) }

\* The sets of URLs at link-distance at most 0, 1, ... n from the seed.
RECURSIVE Within(_)
Within(n) ==
    IF n = 0 THEN <<{start_url}>>
    ELSE LET near == Within(n - 1)
             last == near[n]
         IN  Append(near, last \cup UNION { InScopeLinks(u) : u \in last })

\* C6: the URLs are fetched in the order of their first push, the results
\* list them in that order, and a URL is never fetched before one that is
\* nearer to the seed (each URL fetched is at least as far from the seed as
\* the one fetched before it).
C6_BreadthFirst ==
    Running =>
        /\ IsPrefix(fetched, FirstOccurrences(enqueued))
        /\ IsPrefix(ResultUrls, fetched)
        /\ LET near == Within(Len(fetched))
           IN  \A j \in 2..Len(fetched) : \A k \in 1..Len(near) :
                   fetched[j] \in near[k] => fetched[j - 1] \in near[k]

\* The crawl is over, a URL two links away from the seed was fetched, and
\* some URL was pushed more than once.
C6_Witness ==
    /\ ReturnedOk
    /\ ~NoDup(enqueued)
    /\ \E i \in 1..Len(fetched) : fetched[i] \notin Within(1)[2]

\* Exactly one of the URLs fetched refused the connection, and every other
\* one, at least one, was answered and its body read.
Unreachable == { u \in visited : ~Respond(web, u).connect }

OneUnreachable ==
    /\ pc = "returned"
    /\ Cardinality(Unreachable) = 1
    /\ visited # Unreachable
    /\ \A u \in visited \ Unreachable : Respond(web, u).body_ok

\* The in-scope links of the page of x, were u to answer: the page behind
\* u is served, the other answers are as they are.
LinksWere(u, x) ==
    LET a == Respond(web, x)
        l == parse_html(x, a.body)
    IN  IF (a.connect \/ x = u) /\ a.body_ok /\ IsHtmlHeader(a.header)
        THEN { l[k] : k \in { n \in 1..Len(l) : is_same_domain(base_domain, l[n]) } }
        ELSE {}

\* The URLs the crawl processes, were u to answer.
RECURSIVE ProcessedWere(_, _)
ProcessedWere(u, seen) ==
    LET more == seen \cup UNION { LinksWere(u, x) : x \in seen }
    IN  IF more = seen THEN seen ELSE ProcessedWere(u, more)

\* One Error entry for the refused URL, fetched once.
OneErrorFor(u) ==
    /\ Cardinality({ i \in 1..Len(results) : results[i].url = u }) = 1
    /\ HasResult(u, {"Error"})
    /\ Cardinality({ i \in 1..Len(fetched) : fetched[i] = u }) = 1

\* C7 as claimed: when one URL refuses the connection among reachable ones,
\* the crawl returns with one Error entry for it, fetched once, and with an
\* Html or File entry for every other URL it would have processed had that
\* URL answered.
C7_Isolation ==
    OneUnreachable =>
        /\ returned.tag = "Ok"
        /\ to_visit = <<>>
        /\ \A u \in Unreachable :
              /\ OneErrorFor(u)
              /\ \A v \in ProcessedWere(u, {start_url}) \ {u} :
                    HasResult(v, {"Html", "File"})

\* C7 as amended: when one URL refuses the connection among reachable ones,
\* the crawl returns with one Error entry for it, fetched once, and with an
\* Html or File entry for every other URL that was pushed onto the queue;
\* the queue is empty.
C7_IsolationOfPushed ==
    OneUnreachable =>
        /\ returned.tag = "Ok"
        /\ to_visit = <<>>
        /\ \A u \in Unreachable :
              /\ OneErrorFor(u)
              /\ \A v \in SeqToSet(enqueued) \ {u} :
                    HasResult(v, {"Html", "File"})

\* One URL refused the connection, and two others were fetched and have
\* their results.
C7_Witness ==
    /\ OneUnreachable
    /\ returned.tag = "Ok"
    /\ Len(results) >= 3
    /\ \E i \in 1..Len(results) : results[i].tag = "File"

\* C8 as claimed: at every iteration boundary and when crawl has ended, the
\* urls of the results are the URLs marked visited, in the order they were
\* marked, so there are as many results as visited URLs.
C8_OneResultPerVisit ==
    pc \in {"loop", "returned"} =>
        /\ ResultUrls = fetched
        /\ Len(results) = Cardinality(visited)

\* The bytes of a content-type header, and what the code can read of them.
Declared(h) == IF IsSome(h) THEN Unwrap(h).text ELSE <<>>
Visible(h)  == IF IsSome(h) /\ Unwrap(h).ascii THEN Unwrap(h).text ELSE <<>>

\* The content types that begin with text/html.
HtmlTypes == { t \in { Declared(h) : h \in Headers } :
                Len(t) >= 2 /\ t[1] = "text/" /\ t[2] = "html" }

\* The entry of the results for a response that came and was read, given
\* the content type ct taken as declared.
Classified(r, ct) ==
    IF ct \in HtmlTypes THEN r.tag = "Html"
    ELSE r.tag = "File" /\ r.content_type = ct

Answered(r) == Respond(web, r.url).connect /\ Respond(web, r.url).body_ok

\* C9 as claimed: a response whose declared content type begins with
\* text/html yields an Html result, and every other response a File result
\* carrying the declared content type.
C9_Classification ==
    \A i \in 1..Len(results) :
        Answered(results[i]) =>
            Classified(results[i], Declared(Respond(web, results[i].url).header))

\* C9 as amended: the content type is the header value when it is visible
\* ASCII and the empty string otherwise (no header, or bytes that are not
\* visible ASCII); a response whose content type so read begins with
\* text/html yields an Html result, every other a File result carrying it.
C9_ClassificationOfVisible ==
    \A i \in 1..Len(results) :
        /\ Answered(results[i]) =>
              Classified(results[i], Visible(Respond(web, results[i].url).header))
        /\ results[i].tag \in {"Html", "File"} => Answered(results[i])

\* The crawl is over with an Html result for a text/html; charset=utf-8
\* response, a File result for a response with no content-type and a File
\* result for one that is not text/html.
C9_Witness ==
    /\ ReturnedOk
    /\ \E i \in 1..Len(results) :
          /\ results[i].tag = "Html"
          /\ Len(Declared(Respond(web, results[i].url).header)) = 3
    /\ \E i \in 1..Len(results) :
          /\ results[i].tag = "File"
          /\ Respond(web, results[i].url).header = None
    /\ \E i \in 1..Len(results) :
          /\ results[i].tag = "File"
          /\ results[i].content_type # <<>>

\* C10: the links of an Html result are what the extractor returned for the
\* page, every link in extraction order, whether or not it was pushed.
C10_RawLinks ==
    \A i \in 1..Len(results) :
        results[i].tag = "Html" =>
            results[i].links =
                parse_html(results[i].url, Respond(web, results[i].url).body)

\* An Html result lists a link twice, a link out of scope and a link to a
\* URL visited before the page was read, and lists more links than the page
\* pushed.
C10_Witness ==
    \E i \in 1..Len(results) :
        /\ results[i].tag = "Html"
        /\ ~NoDup(results[i].links)
        /\ \E k \in 1..Len(results[i].links) :
              ~is_same_domain(base_domain, results[i].links[k])
        /\ \E k \in 1..Len(results[i].links) :
              \E j \in 1..i : results[i].links[k] = fetched[j]

\* The strategies that see a fragment of context c.
Seeing(c) ==
    (IF c \in {"tag", "bare"} THEN {"structural"} ELSE {})
    \cup (IF c \in {"tag", "text"} THEN {"pattern"} ELSE {})

Count(s, x) == Cardinality({ i \in 1..Len(s) : s[i] = x })

\* The page an Html result was made from.
PageOf(r) == Respond(web, r.url).body

\* C11: the links of a page are the links of the structural strategy
\* followed by those of the pattern strategy, nothing removed: each link
\* occurs once for every fragment that normalizes to it and every strategy
\* that sees that fragment, so twice for a fragment both strategies see, and
\* a fragment only the pattern sees is among them.
C11_DualStrategy ==
    \A i \in 1..Len(results) :
        results[i].tag = "Html" =>
            LET r == results[i]
                d == PageOf(r)
            IN  /\ r.links = parse_html_with_scraper(r.url, d)
                                \o parse_html_with_regex(r.url, d)
                /\ \A k \in 1..Len(d) :
                      IsSome(normalize_url(r.url, d[k].val)) =>
                          Count(r.links, Unwrap(normalize_url(r.url, d[k].val))) > 0
                /\ \A x \in SeqToSet(r.links) :
                      Count(r.links, x) =
                          Cardinality({ p \in (1..Len(d)) \X {"structural", "pattern"} :
                              /\ p[2] \in Seeing(d[p[1]].ctx)
                              /\ normalize_url(r.url, d[p[1]].val) = Some(x) })

\* An Html result of a page with an <a href="/a">, found by both strategies
\* and listed twice, and a fragment only the pattern finds, listed once.
C11_Witness ==
    \E i \in 1..Len(results) :
        /\ results[i].tag = "Html"
        /\ \E k \in 1..Len(PageOf(results[i])) :
              /\ PageOf(results[i])[k].ctx = "tag"
              /\ IsSome(normalize_url(results[i].url, PageOf(results[i])[k].val))
              /\ Count(results[i].links,
                       Unwrap(normalize_url(results[i].url, PageOf(results[i])[k].val))) = 2
        /\ \E k \in 1..Len(PageOf(results[i])) :
              /\ PageOf(results[i])[k].ctx = "text"
              /\ IsSome(normalize_url(results[i].url, PageOf(results[i])[k].val))
              /\ Count(results[i].links,
                       Unwrap(normalize_url(results[i].url, PageOf(results[i])[k].val))) = 1

\* The fragments of a page that normalize_url rejects.
Rejected(r) ==
    { k \in 1..Len(PageOf(r)) : ~IsSome(normalize_url(r.url, PageOf(r)[k].val)) }

\* C12: extraction never fails.  Every Error result is for a URL whose GET
\* failed, crawl returns Err only after a body could not be read, a page
\* that was read has its Html result whatever its fragments, and the links
\* of an Html result are URLs that parse: a fragment that cannot be
\* normalized is not among them.
C12_ExtractionNeverFails ==
    /\ \A i \in 1..Len(results) :
          /\ results[i].tag = "Error" => ~Respond(web, results[i].url).connect
          /\ results[i].tag = "Html" =>
                /\ \A k \in 1..Len(results[i].links) :
                      IsSome(UrlParse(results[i].links[k]))
                /\ Len(results[i].links) =
                      Cardinality({ p \in ((1..Len(PageOf(results[i]))) \ Rejected(results[i]))
                                          \X {"structural", "pattern"} :
                                      p[2] \in Seeing(PageOf(results[i])[p[1]].ctx) })
    /\ (pc = "returned" /\ returned.tag = "Err") =>
          \E u \in visited : ~Respond(web, u).body_ok
    /\ pc \in {"sleep", "loop"} =>
          \A u \in visited :
              (Respond(web, u).connect /\ IsHtmlHeader(Respond(web, u).header)) =>
                  HasResult(u, {"Html"})

\* The crawl is over and returned its results, among them the Html result
\* of a page with a fragment that cannot be normalized and one that can.
C12_Witness ==
    /\ ReturnedOk
    /\ \E i \in 1..Len(results) :
          /\ results[i].tag = "Html"
          /\ Rejected(results[i]) # {}
          /\ results[i].links # <<>>

C14_BadSeedFatal ==
    ~IsSome(UrlParse(start_url)) =>
        /\ pc \in {"new", "panicked"}
        /\ fetched = <<>>
        /\ visited = {}
        /\ to_visit = <<>>
        /\ results = <<>>
        /\ returned = NotReturned

\* Crawler::new has panicked on a seed that does not parse.
C14_Witness ==
    /\ pc = "panicked"
    /\ ~IsSome(UrlParse(start_url))

\* C15 as claimed: no URL string is pushed onto the queue more than once,
\* the push of the seed counted, and the queue never holds two copies of a
\* URL.
C15_EnqueuedOnce ==
    /\ NoDup(enqueued)
    /\ NoDup(to_visit)

\* The URLs a step pushes.
NewlyPushed == { enqueued'[k] : k \in (Len(enqueued) + 1)..Len(enqueued') }

\* C15 as amended: no URL string is pushed once it has been marked visited,
\* and every URL string a GET is issued for had been pushed; a URL that is
\* not yet visited can be pushed again.
C15_NotPushedOnceVisited ==
    [][ /\ \A u \in NewlyPushed : u \notin visited /\ u \notin visited'
        /\ IsPrefix(enqueued, enqueued')
        /\ visited' \subseteq SeqToSet(enqueued')
      ]_vars

\* The crawl is over; some URL was pushed twice, by one page or by two, and
\* a copy of it was skipped.
C15_Witness ==
    /\ ReturnedOk
    /\ ~NoDup(enqueued)
    /\ Len(enqueued) > Len(fetched)
    /\ Len(fetched) >= 2

\* C16: a step that pops a URL already visited only removes it from the
\* queue: no GET, no result, nothing pushed, the visited set as it was, and
\* the loop is at its head again without the delay.  This check at the pop
\* is what stands between a queued copy of a visited URL and a second GET.
C16_SkipStep ==
    [][ (pc = "loop" /\ to_visit # <<>> /\ Head(to_visit) \in visited) =>
            /\ to_visit' = Tail(to_visit)
            /\ pc' = "loop"
            /\ UNCHANGED <<visited, results, fetched, enqueued, returned, web>>
      ]_vars

\* The loop is at its head after more pops than GETs: a copy was skipped.
C16_Witness ==
    /\ pc = "loop"
    /\ Len(enqueued) - Len(to_visit) > Len(fetched)
    /\ Len(results) = Len(fetched)

\* The links of s that are not in seen and have the seed's host, in order.
RECURSIVE Unvisited(_, _)
Unvisited(s, seen) ==
    IF s = <<>> THEN <<>>
    ELSE (IF Head(s) \notin seen /\ IsSome(UrlParse(Head(s)))
             /\ Unwrap(UrlParse(Head(s))).host = SeedHost
          THEN <<Head(s)>> ELSE <<>>)
         \o Unvisited(Tail(s), seen)

\* C17: the step that handles an Html page pushes onto the back of the
\* queue exactly the links of the page, in order, that are not in the
\* visited set and are in scope; the URL of the page is in the visited set
\* by then, so it is not pushed.
C17_EnqueueCondition ==
    [][ (pc = "text" /\ pc' = "sleep") =>
            LET links == results'[Len(results')].links
            IN  /\ to_visit' = to_visit \o Unvisited(links, visited)
                /\ url \in visited
                /\ url \notin NewlyPushed
      ]_vars

\* An Html result lists its own URL among its links, and links of some page
\* were pushed.
C17_Witness ==
    /\ Len(enqueued) >= 2
    /\ \E i \in 1..Len(results) :
          /\ results[i].tag = "Html"
          /\ Count(results[i].links, results[i].url) > 0
          /\ \E k \in 1..Len(results[i].links) :
                Count(enqueued, results[i].links[k]) > 0
                /\ results[i].links[k] # start_url

\* C18: a step that appends a File or an Error result leaves the queue as
\* it was and pushes nothing, and the visited set only ever changes by the
\* URL just popped being added to it.
C18_OnlyHtmlGrows ==
    [][ /\ (Len(results') > Len(results)
             /\ results'[Len(results')].tag \in {"File", "Error"}) =>
                UNCHANGED <<to_visit, enqueued, visited>>
        /\ visited' # visited =>
                /\ to_visit # <<>>
                /\ visited' = visited \cup {Head(to_visit)}
        /\ to_visit' # to_visit =>
                \/ to_visit # <<>> /\ to_visit' = Tail(to_visit)
                \/ pc = "new"
                \/ Len(results') > Len(results) /\ results'[Len(results')].tag = "Html"
      ]_vars

\* A File and an Error result were appended while URLs were waiting in the
\* queue.
C18_Witness ==
    /\ to_visit # <<>>
    /\ \E i \in 1..Len(results) : results[i].tag = "File"
    /\ \E i \in 1..Len(results) : results[i].tag = "Error"

\* C19: at most one GET is without its result, a URL is popped only when
\* every URL fetched before has its result and its links were handled (the
\* loop is at its head), and while a fetch is awaited the queue, the
\* visited set and the results stay as they are.
C19_Sequential ==
    /\ Len(fetched) - Len(results) \in {0, 1}
    /\ pc \in {"loop", "sleep"} => Len(fetched) = Len(results)
    /\ pc \in {"send", "text", "bytes"} =>
          /\ Len(fetched) = Len(results) + 1
          /\ fetched[Len(fetched)] = url
          /\ Len(enqueued) - Len(to_visit) >= Len(fetched)

\* A GET is awaited while other URLs wait in the queue and earlier ones
\* have their results.
C19_Witness ==
    /\ pc = "send"
    /\ to_visit # <<>>
    /\ Len(results) >= 1

\* The text of a URL in normalized form.
IsNormalized(text) ==
    IsSome(UrlParse(text)) /\ UrlToString(Unwrap(UrlParse(text))) = text

\* The results for the resource a URL string names.
ResultsFor(text) ==
    { i \in 1..Len(results) : UrlParse(results[i].url) = UrlParse(text) }

\* C20: the seed is queued as the string given and every link pushed is in
\* normalized form; when the seed is not in normalized form and a page
\* read lists a link to it, the crawl that runs to its end has fetched the
\* seed's resource twice, under the seed string and under the normalized
\* string, and has two results for it.
C20_SeedNotNormalized ==
    Running =>
        /\ enqueued[1] = start_url
        /\ \A k \in 2..Len(enqueued) : IsNormalized(enqueued[k])
        /\ (/\ ReturnedOk
            /\ ~IsNormalized(start_url)
            /\ \E i \in 1..Len(results) :
                  /\ results[i].tag = "Html"
                  /\ Count(results[i].links, UrlToString(Unwrap(UrlParse(start_url)))) > 0)
           => /\ Count(fetched, start_url) = 1
              /\ Count(fetched, UrlToString(Unwrap(UrlParse(start_url)))) = 1
              /\ Cardinality(ResultsFor(start_url)) = 2

\* The crawl is over: the seed had no trailing slash, a page linked back to
\* it, and its resource has two results.
C20_Witness ==
    /\ ReturnedOk
    /\ ~IsNormalized(start_url)
    /\ Cardinality(ResultsFor(start_url)) = 2

====
